---- MODULE Spec2Model ----
(***************************************************************************)
(* State-machine model of server.js: the three in-memory registries        *)
(* (users, sessions, links), the uploads directory, and one action per     *)
(* HTTP route.  An action is one whole request (middleware chain, handler  *)
(* and response), except for upload-audio and the stepwise register, whose *)
(* middleware are separate steps that interleave with other requests.  The *)
(* last request answered and its response are part of the state so that    *)
(* properties about responses can be stated.                               *)
(*                                                                         *)
(* Strings that the code only stores, compares or concatenates (emails     *)
(* after normalisation, passwords, tokens, file names) are TLA+ strings.   *)
(* Strings that the code rewrites character by character (name, message)   *)
(* are sequences of one-character strings.                                 *)
(*                                                                         *)
(* nanoid is modelled as returning a token of the requested length that    *)
(* was not issued before (no collisions).                                  *)
(***************************************************************************)
EXTENDS Integers, Sequences, FiniteSets, TLC

\* ---------------------------------------------------------------- bounds
MaxUsers    == 2   \* accounts that can be registered
MaxSessions == 2   \* successful logins
MaxLinks    == 2   \* successful generate-link calls
MaxUploads  == 2   \* file names multer draws
MaxTime     == 1   \* clock ticks (milliseconds of new Date())
MaxClients  == 2   \* connections that send a register request at the same time

\* ------------------------------------------------------ program constants
LinkIdLen    == 10
SessionIdLen == 32
UserIdLen    == 21
MinPassword  == 6
FileSizeLimit == 10 * 1024 * 1024

\* ------------------------------------------------------------ nanoid pools
\* The tokens nanoid can return, per kind, in the order the model issues them.
UserIds    == [i \in 1..MaxUsers    |-> "user0000000000000000" \o ToString(i)]
SessionIds == [i \in 1..MaxSessions |-> "session000000000000000000000000" \o ToString(i)]
LinkIds    == [i \in 1..MaxLinks    |-> "linkid000" \o ToString(i)]
FileIds    == [i \in 1..MaxUploads  |-> "fileid000" \o ToString(i)]

\* nanoid(size): a token of that length that was not issued before.  Tokens
\* are opaque to the code (it only stores them and compares them for
\* equality), so the model issues them in pool order: the first unused one.
nanoid(pool, size, used) ==
  LET free == {i \in 1..Len(pool) : Len(pool[i]) = size /\ pool[i] \notin used}
  IN  {pool[i] : i \in {j \in free : \A k \in free : j <= k}}

\* tokens a client can send that the server never issued
BogusSession == "session00000000000000000000000000"
BogusLink    == "linkid0000"

\* ------------------------------------------------------------------ inputs
\* an optional JSON field / header / file: absent, or present with a value
Absent(dflt) == [some |-> FALSE, val |-> dflt]
Some(v)      == [some |-> TRUE, val |-> v]

\* None of the strings below contains '<', so xss-clean leaves them as they are.
\* (A password and a file name with '<' are among the inputs further down.)
RawEmails      == {"a@x.com", "A@x.com", "b@x.com", "not-an-email"}
Passwords      == {"secret1", "Secret1", "short"}
LoginPasswords == {"secret1", "Secret1", ""}
IssuedTokens   == {Absent("")} \cup {Some(SessionIds[i]) : i \in 1..MaxSessions}
TokenInputs    == IssuedTokens \cup {Some(BogusSession)}
IssuedIds      == {LinkIds[i] : i \in 1..MaxLinks}
IdInputs       == IssuedIds \cup {BogusLink, "short"}
Responses      == {"yes", "no", "maybe"}

Mime(type, subtype) == [type |-> type, subtype |-> subtype]
NoFile  == Absent([mimetype |-> Mime("", ""), size |-> 0, ext |-> ""])
AudioFile == Some([mimetype |-> Mime("audio", "mpeg"), size |-> 1024 * 1024, ext |-> ".mp3"])
Files   == {NoFile, AudioFile,
            Some([mimetype |-> Mime("audio", "mpeg"), size |-> 15 * 1024 * 1024, ext |-> ".mp3"]),
            Some([mimetype |-> Mime("image", "png"), size |-> 1024, ext |-> ".png"])}

\* request bodies of generate-link
Body(name, message, audioFile) == [name |-> name, message |-> message, audioFile |-> audioFile]
PlainBody == Body(Some(<<"S">>), Absent(<<>>), Absent(""))
Bodies == {PlainBody,
           Body(Some(<<"S">>), Absent(<<>>), Some("")),
           Body(Some(<<" ", "<">>), Some(<<"&", " ">>), Some("a<b.mp3")),
           Body(Some(<<" ">>), Some(<<"&", " ">>), Absent("")),
           Body(Absent(<<>>), Absent(<<>>), Absent(""))}

\* ------------------------------------------------------------------- state
VARIABLES users,     \* Map email -> [password, id]
          sessions,  \* Map sessionId -> [userId, email]
          links,     \* Map id -> invite, as the sequence of its entries in insertion order
          uploads,   \* file names present in public/uploads
          now,       \* the clock read by new Date()
          lastReq,   \* the request handled last
          lastRes,   \* its response: [status, body]
          inflight,  \* register requests in flight: per connection, the
                     \* middleware it has reached, req.body and the response
          uploading, \* upload requests in flight: per connection, the
                     \* middleware it has reached, the token and file sent
                     \* and the name multer gave the file
          drawn      \* the file ids nanoid(10) has returned to multer

vars == <<users, sessions, links, uploads, now, lastReq, lastRes, inflight, uploading, drawn>>

\* -------------------------------------------------------- string functions
RECURSIVE Flatten(_)
Flatten(ss) == IF ss = <<>> THEN <<>> ELSE Head(ss) \o Flatten(Tail(ss))

\* xss-clean: xss-filters inHTMLData replaces every '<' by '&lt;'
xssChar(c) == IF c = "<" THEN <<"&", "l", "t", ";">> ELSE <<c>>
xss(s) == Flatten([i \in 1..Len(s) |-> xssChar(s[i])])

\* the same on a text kept as a string (email, password, id, file name)
RECURSIVE xssString(_)
xssString(s) ==
  IF s = "" THEN ""
  ELSE (IF SubSeq(s, 1, 1) = "<" THEN "&lt;" ELSE SubSeq(s, 1, 1))
         \o xssString(SubSeq(s, 2, Len(s)))

\* the texts the requests of this model carry, cleaned once
BodyTexts ==
  RawEmails \cup Passwords \cup LoginPasswords \cup IdInputs \cup Responses
    \cup {"", "ab<", "a<b.mp3", "fileid0001.mp3"}
xssTable == [s \in BodyTexts |-> xssString(s)]

\* xss-clean on one text of req.body or req.query
xssBody(s) == IF s \in BodyTexts THEN xssTable[s] ELSE xssString(s)

\* the same on an optional body field
xssField(f) == IF f.some THEN [some |-> TRUE, val |-> xssBody(f.val)] ELSE f

\* validator.js trim(): strips whitespace at both ends
RECURSIVE ltrim(_)
ltrim(s) == IF s # <<>> /\ Head(s) = " " THEN ltrim(Tail(s)) ELSE s
RECURSIVE rtrim(_)
rtrim(s) == IF s # <<>> /\ s[Len(s)] = " " THEN rtrim(SubSeq(s, 1, Len(s) - 1)) ELSE s
trim(s) == rtrim(ltrim(s))

\* validator.js escape(): replaces & < > " / by HTML entities (and the
\* apostrophe, backslash and backtick, which no input of this model contains)
escapeChar(c) ==
  CASE c = "&"  -> <<"&", "a", "m", "p", ";">>
    [] c = "<"  -> <<"&", "l", "t", ";">>
    [] c = ">"  -> <<"&", "g", "t", ";">>
    [] c = "\"" -> <<"&", "q", "u", "o", "t", ";">>
    [] c = "/"  -> <<"&", "#", "x", "2", "F", ";">>
    [] OTHER    -> <<c>>
escape(s) == Flatten([i \in 1..Len(s) |-> escapeChar(s[i])])

\* validator.js isEmail(), on the enumerated inputs
isEmail(e) == e \in {"a@x.com", "A@x.com", "b@x.com"}

\* validator.js normalizeEmail(): splits the text at its last '@' into user
\* and domain (a text without '@' is all domain, its user is empty),
\* lower-cases both (all_lowercase) and joins them with '@'
normalizeEmail(e) ==
  CASE e = "A@x.com"      -> "a@x.com"
    [] e = "not-an-email" -> "@not-an-email"
    [] OTHER              -> e

\* ------------------------------------------------------------ Map helpers
Has(m, k) == k \in DOMAIN m
Set(m, k, v) == [x \in DOMAIN m \cup {k} |-> IF x = k THEN v ELSE m[x]]

LinkKeys(l) == {l[i].id : i \in 1..Len(l)}
LinkIndex(l, id) == CHOOSE i \in 1..Len(l) : l[i].id = id

\* --------------------------------------------------------------- responses
Res(status, body) == [status |-> status, body |-> body]
Err(path) == [path |-> path, msg |-> "Invalid value"]

\* validate: 400 with the list of violations when there is one
ValidationFailed(errors) == Res(400, [error |-> "Validation failed", details |-> errors])

Unauthorized == Res(401, [error |-> "Unauthorized"])
InvalidCredentials == Res(401, [error |-> "Invalid credentials"])
UserExists == Res(400, [error |-> "User already exists"])
LostHeart == Res(404, [error |-> "Lost heart..."])

\* the connections, and a connection that has sent nothing yet
Clients == 1..MaxClients
Idle == [stage |-> "idle", email |-> "", password |-> "", res |-> Res(0, [none |-> TRUE])]

\* a connection that has no upload in flight
NoUpload == [stage |-> "idle", token |-> Absent(""), file |-> NoFile, filename |-> ""]

\* public/uploads when the server starts: created empty (or found empty) on
\* a first start, and holding the files of earlier runs after that
StoredBefore == {{}, {"old0000001.mp3"}}

Init ==
  /\ users = [e \in {} |-> [password |-> "", id |-> ""]]
  /\ sessions = [t \in {} |-> [userId |-> "", email |-> ""]]
  /\ links = <<>>
  /\ uploads \in StoredBefore
  /\ now = 0
  /\ lastReq = [op |-> "none"]
  /\ lastRes = Res(0, [none |-> TRUE])
  /\ inflight = [c \in Clients |-> Idle]
  /\ uploading = [c \in Clients |-> NoUpload]
  /\ drawn = {}

\* ------------------------------------------------------------------- clock
Tick ==
  /\ now < MaxTime
  /\ now' = now + 1
  /\ UNCHANGED <<users, sessions, links, uploads, lastReq, lastRes, inflight, uploading, drawn>>

\* ------------------------------------------------------------- middleware
\* express-validator: one error per failed validator, in chain order
Violations(checks) ==
  LET failed == SelectSeq(checks, LAMBDA c : c.bad)
  IN  [i \in 1..Len(failed) |-> Err(failed[i].path)]

\* auth: the session of the Authorization header, if any
auth(s, token) ==
  IF token.some /\ Has(s, token.val)
    THEN [ok |-> TRUE, user |-> s[token.val]]
    ELSE [ok |-> FALSE, user |-> [userId |-> "", email |-> ""]]

\* the id a handler draws; a path that calls no nanoid draws nothing
Draw(needed, ids) == IF needed THEN ids ELSE {""}

\* ---------------------------------------------------------- /api/register
registerErrors(email, password) ==
  Violations(<< [path |-> "email", bad |-> ~isEmail(email)],
                [path |-> "password", bad |-> Len(password) < MinPassword] >>)

\* variant: an account is only "the same" when the password matches too
registerHandler_Overwrite(u, email, password, userId) ==
  IF Has(u, email) /\ u[email].password = password
    THEN [users |-> u, res |-> UserExists]
    ELSE [users |-> Set(u, email, [password |-> password, id |-> userId]),
          res |-> Res(200, [success |-> TRUE, message |-> "Welcome to the club!"])]

\* variant: a register for an existing account is refused but stores the
\* new password
registerHandler_Upsert(u, email, password, userId) ==
  IF Has(u, email)
    THEN [users |-> Set(u, email, [password |-> password, id |-> u[email].id]),
          res |-> UserExists]
    ELSE [users |-> Set(u, email, [password |-> password, id |-> userId]),
          res |-> Res(200, [success |-> TRUE, message |-> "Welcome to the club!"])]

\* the handler, on the normalised email
registerHandler(u, email, password, userId) ==
  IF Has(u, email)
    THEN [users |-> u, res |-> UserExists]
    ELSE [users |-> Set(u, email, [password |-> password, id |-> userId]),
          res |-> Res(200, [success |-> TRUE, message |-> "Welcome to the club!"])]

\* the whole request: xss-clean on the body, the validators, validate and
\* the handler
Register(email, password) ==
  LET body == [email |-> xssBody(email), password |-> xssBody(password)]
      errors == registerErrors(body.email, body.password)
      e == normalizeEmail(body.email)
      fresh == nanoid(UserIds, UserIdLen, {users[x].id : x \in DOMAIN users})
  IN  /\ lastReq' = [op |-> "register", email |-> email, password |-> password]
      /\ IF errors # <<>>
           THEN /\ lastRes' = ValidationFailed(errors)
                /\ users' = users
           ELSE \E userId \in Draw(~Has(users, e), fresh) :
                  LET r == registerHandler(users, e, body.password, userId)
                  IN  /\ users' = r.users
                      /\ lastRes' = r.res
      /\ UNCHANGED <<sessions, links, uploads, now, inflight, uploading, drawn>>

\* The same route, one middleware at a time.  The validators of
\* express-validator are asynchronous, so between the arrival of a request,
\* the end of its validation and its handler the event loop can run the
\* middleware of other requests; the handler itself has no await and runs from
\* users.has to res.json in one turn of the event loop.  A request arrives
\* through xss-clean, so req.body holds the cleaned texts.
RegisterReceive(c, email, password) ==
  /\ inflight[c].stage = "idle"
  /\ inflight' = [inflight EXCEPT ![c] = [stage |-> "validating",
                                          email |-> xssBody(email),
                                          password |-> xssBody(password),
                                          res |-> Idle.res]]
  /\ UNCHANGED <<users, sessions, links, uploads, now, lastReq, lastRes, uploading, drawn>>

\* the validators and validate: the chain of email checks the text as sent
\* and then normalises it in req.body, whether the check passed or not;
\* validate answers 400 or goes on to the handler
RegisterValidate(c) ==
  LET req == inflight[c]
      errors == registerErrors(req.email, req.password)
      body == [req EXCEPT !.email = normalizeEmail(req.email)]
  IN  /\ req.stage = "validating"
      /\ inflight' = [inflight EXCEPT ![c] =
                        IF errors # <<>>
                          THEN [body EXCEPT !.stage = "done", !.res = ValidationFailed(errors)]
                          ELSE [body EXCEPT !.stage = "handler"]]
      /\ UNCHANGED <<users, sessions, links, uploads, now, lastReq, lastRes, uploading, drawn>>

\* variant: the event loop can run other requests between users.has and
\* users.set
RegisterHandle_Split(c) ==
  LET req == inflight[c]
      fresh == nanoid(UserIds, UserIdLen, {users[x].id : x \in DOMAIN users})
  IN  \/ /\ req.stage = "handler"
         /\ inflight' = [inflight EXCEPT ![c] =
                           IF Has(users, req.email)
                             THEN [req EXCEPT !.stage = "done", !.res = UserExists]
                             ELSE [req EXCEPT !.stage = "absent"]]
         /\ UNCHANGED <<users, sessions, links, uploads, now, lastReq, lastRes, uploading, drawn>>
      \/ /\ req.stage = "absent"
         /\ \E userId \in Draw(~Has(users, req.email), fresh) :
              /\ users' = Set(users, req.email, [password |-> req.password, id |-> userId])
              /\ inflight' = [inflight EXCEPT ![c] =
                                [req EXCEPT !.stage = "done",
                                            !.res = Res(200, [success |-> TRUE,
                                                              message |-> "Welcome to the club!"])]]
         /\ UNCHANGED <<sessions, links, uploads, now, lastReq, lastRes, uploading, drawn>>

\* the handler
RegisterHandle(c) ==
  LET req == inflight[c]
      fresh == nanoid(UserIds, UserIdLen, {users[x].id : x \in DOMAIN users})
  IN  /\ req.stage = "handler"
      /\ \E userId \in Draw(~Has(users, req.email), fresh) :
           LET r == registerHandler(users, req.email, req.password, userId)
           IN  /\ users' = r.users
               /\ inflight' = [inflight EXCEPT ![c] = [req EXCEPT !.stage = "done", !.res = r.res]]
      /\ UNCHANGED <<sessions, links, uploads, now, lastReq, lastRes, uploading, drawn>>

\* ------------------------------------------------------------- /api/login
loginErrors(email, password) ==
  Violations(<< [path |-> "email", bad |-> ~isEmail(email)],
                [path |-> "password", bad |-> password = ""] >>)

\* user && user.password === password
verify(u, email, password) == Has(u, email) /\ u[email].password = password

\* variant: an unknown email is told apart from a wrong password
loginHandler_Reveal(u, s, email, password, sessionId) ==
  IF verify(u, email, password)
    THEN [sessions |-> Set(s, sessionId, [userId |-> u[email].id, email |-> email]),
          res |-> Res(200, [success |-> TRUE, sessionId |-> sessionId])]
  ELSE IF ~Has(u, email)
    THEN [sessions |-> s, res |-> Res(404, [error |-> "User not found"])]
    ELSE [sessions |-> s, res |-> InvalidCredentials]

\* variant: a login ends the other sessions of the account
loginHandler_SingleSession(u, s, email, password, sessionId) ==
  IF verify(u, email, password)
    THEN [sessions |-> Set([t \in {x \in DOMAIN s : s[x].userId # u[email].id} |-> s[t]],
                           sessionId, [userId |-> u[email].id, email |-> email]),
          res |-> Res(200, [success |-> TRUE, sessionId |-> sessionId])]
    ELSE [sessions |-> s, res |-> InvalidCredentials]

loginHandler(u, s, email, password, sessionId) ==
  IF verify(u, email, password)
    THEN [sessions |-> Set(s, sessionId, [userId |-> u[email].id, email |-> email]),
          res |-> Res(200, [success |-> TRUE, sessionId |-> sessionId])]
    ELSE [sessions |-> s, res |-> InvalidCredentials]

Login(email, password) ==
  LET body == [email |-> xssBody(email), password |-> xssBody(password)]
      errors == loginErrors(body.email, body.password)
      e == normalizeEmail(body.email)
      fresh == nanoid(SessionIds, SessionIdLen, DOMAIN sessions)
  IN  /\ lastReq' = [op |-> "login", email |-> email, password |-> password]
      /\ IF errors # <<>>
           THEN /\ lastRes' = ValidationFailed(errors)
                /\ sessions' = sessions
           ELSE /\ verify(users, e, body.password) => Cardinality(DOMAIN sessions) < MaxSessions
                /\ \E sessionId \in Draw(verify(users, e, body.password), fresh) :
                     LET r == loginHandler(users, sessions, e, body.password, sessionId)
                     IN  /\ sessions' = r.sessions
                         /\ lastRes' = r.res
      /\ UNCHANGED <<users, links, uploads, now, inflight, uploading, drawn>>

\* ------------------------------------------------------ /api/upload-audio
\* fileFilter: file.mimetype.startsWith('audio/')
fileFilter(file) == file.mimetype.type = "audio"

\* Express' default error handler answers an error passed to next(err):
\* status 500 (the Error carries no status) and an HTML page, not JSON
DefaultErrorHandler(message) == Res(500, [html |-> message])

\* The route is the chain auth, upload.single('audio'), handler.  multer
\* reads the multipart body from the socket and writes the file through a
\* stream, so the event loop runs other requests between the three, and
\* while the file is written.

\* auth: 401, or on to multer
UploadAuth(c, token, file) ==
  LET a == auth(sessions, token)
  IN  /\ uploading[c].stage \in {"idle", "aborted"}
      /\ IF ~a.ok
           THEN /\ lastReq' = [op |-> "upload-audio", token |-> token, file |-> file]
                /\ lastRes' = Unauthorized
                /\ uploading' = [uploading EXCEPT ![c] = NoUpload]
           ELSE /\ uploading' = [uploading EXCEPT ![c] =
                                   [stage |-> "multer", token |-> token, file |-> file,
                                    filename |-> ""]]
                /\ UNCHANGED <<lastReq, lastRes>>
      /\ UNCHANGED <<users, sessions, links, uploads, now, inflight, drawn>>

\* multer meets the body: without a file part it goes on to the handler; a
\* file that fileFilter refuses fails the request, which is answered once
\* the rest of the body has been read; for any other file the filename
\* callback draws nanoid(10), a name it has not returned before whether or
\* not that file is still there, and the file appears in public/uploads
UploadMulter(c) ==
  LET req == uploading[c]
      fresh == nanoid(FileIds, LinkIdLen, drawn \cup {SubSeq(f, 1, LinkIdLen) : f \in uploads})
  IN  /\ req.stage = "multer"
      /\ IF ~req.file.some
           THEN /\ uploading' = [uploading EXCEPT ![c] = [req EXCEPT !.stage = "handler"]]
                /\ UNCHANGED <<uploads, drawn, lastReq, lastRes>>
         ELSE IF ~fileFilter(req.file.val)
           THEN /\ uploading' = [uploading EXCEPT ![c] = [req EXCEPT !.stage = "error"]]
                /\ UNCHANGED <<uploads, drawn, lastReq, lastRes>>
           ELSE \E fileId \in fresh :
                  /\ drawn' = drawn \cup {fileId}
                  /\ uploads' = uploads \cup {fileId \o req.file.val.ext}
                  /\ uploading' = [uploading EXCEPT ![c] =
                                     [req EXCEPT !.stage = "writing",
                                                 !.filename = fileId \o req.file.val.ext]]
                  /\ UNCHANGED <<lastReq, lastRes>>
      /\ UNCHANGED <<users, sessions, links, now, inflight>>

\* the write has ended: a file over the limit is removed by fs.unlink, and
\* the request, failed, is answered later; any other file stays and the
\* handler is next
UploadWritten(c) ==
  LET req == uploading[c]
  IN  /\ req.stage = "writing"
      /\ IF req.file.val.size > FileSizeLimit
           THEN /\ uploads' = uploads \ {req.filename}
                /\ uploading' = [uploading EXCEPT ![c] = [req EXCEPT !.stage = "error"]]
           ELSE /\ uploads' = uploads
                /\ uploading' = [uploading EXCEPT ![c] = [req EXCEPT !.stage = "handler"]]
      /\ UNCHANGED <<users, sessions, links, now, lastReq, lastRes, inflight, drawn>>

\* the error multer raised for the file of a request
uploadError(file) ==
  IF ~fileFilter(file) THEN "Only audio files are allowed!" ELSE "File too large"

\* next(err) of a failed upload, after the callback of fs.unlink and the end
\* of the request body: Express answers with its default error handler
UploadError(c) ==
  LET req == uploading[c]
  IN  /\ req.stage = "error"
      /\ lastReq' = [op |-> "upload-audio", token |-> req.token, file |-> req.file]
      /\ lastRes' = DefaultErrorHandler(uploadError(req.file.val))
      /\ uploading' = [uploading EXCEPT ![c] = NoUpload]
      /\ UNCHANGED <<users, sessions, links, uploads, now, inflight, drawn>>

\* the client goes away while the file is written: no response; whether the
\* part of the file already written stays depends on the multer release
UploadAbort(c) ==
  LET req == uploading[c]
  IN  /\ req.stage = "writing"
      /\ uploads' = uploads \/ uploads' = uploads \ {req.filename}
      /\ uploading' = [uploading EXCEPT ![c] = [req EXCEPT !.stage = "aborted"]]
      /\ UNCHANGED <<users, sessions, links, now, lastReq, lastRes, inflight, drawn>>

\* the handler, on req.file
uploadHandler(file, filename) ==
  IF ~file.some
    THEN Res(400, [error |-> "No file uploaded"])
    ELSE Res(200, [success |-> TRUE, filename |-> filename])

UploadHandle(c) ==
  LET req == uploading[c]
  IN  /\ req.stage = "handler"
      /\ lastReq' = [op |-> "upload-audio", token |-> req.token, file |-> req.file]
      /\ lastRes' = uploadHandler(req.file, req.filename)
      /\ uploading' = [uploading EXCEPT ![c] = NoUpload]
      /\ UNCHANGED <<users, sessions, links, uploads, now, inflight, drawn>>

\* ----------------------------------------------------- /api/generate-link
generateLinkErrors(name, message, audioFile) ==
  Violations(<< [path |-> "name", bad |-> ~name.some],
                [path |-> "name", bad |-> ~name.some \/ trim(xss(name.val)) = <<>>] >>)

\* variant: no test for an empty audioFile
audioPath_NoCheck(audioFile) ==
  IF audioFile.some THEN "/uploads/" \o audioFile.val ELSE ""

\* audioFile ? `/uploads/${audioFile}` : ''
audioPath(audioFile) ==
  IF audioFile.some /\ audioFile.val # "" THEN "/uploads/" \o audioFile.val ELSE ""

\* the value of name or message after xss-clean and the chain .trim().escape()
sanitize(text) == escape(trim(xss(text)))

\* variant: the invite records the email of its owner, not the id
generateLinkHandler_OwnerEmail(l, user, name, message, audioFile, linkId, date) ==
  [links |-> Append(l, [id |-> linkId,
                        ownerId |-> user.email,
                        name |-> sanitize(name.val),
                        message |-> IF message.some THEN sanitize(message.val) ELSE <<>>,
                        audioPath |-> audioPath(xssField(audioFile)),
                        status |-> "pending",
                        createdAt |-> date,
                        respondedAt |-> <<>>]),
   res |-> Res(200, [linkId |-> linkId])]

generateLinkHandler(l, user, name, message, audioFile, linkId, date) ==
  [links |-> Append(l, [id |-> linkId,
                        ownerId |-> user.userId,
                        name |-> sanitize(name.val),
                        message |-> IF message.some THEN sanitize(message.val) ELSE <<>>,
                        audioPath |-> audioPath(xssField(audioFile)),
                        status |-> "pending",
                        createdAt |-> date,
                        respondedAt |-> <<>>]),
   res |-> Res(200, [linkId |-> linkId])]

\* variant: the validators run before the auth gate
GenerateLink_ValidateFirst(token, name, message, audioFile) ==
  LET a == auth(sessions, token)
      errors == generateLinkErrors(name, message, audioFile)
      fresh == nanoid(LinkIds, LinkIdLen, LinkKeys(links))
  IN  /\ lastReq' = [op |-> "generate-link", token |-> token, name |-> name,
                     message |-> message, audioFile |-> audioFile]
      /\ IF errors # <<>>
           THEN /\ lastRes' = ValidationFailed(errors)
                /\ links' = links
         ELSE IF ~a.ok
           THEN /\ lastRes' = Unauthorized
                /\ links' = links
           ELSE /\ Len(links) < MaxLinks
                /\ \E linkId \in fresh :
                     LET r == generateLinkHandler(links, a.user, name, message, audioFile, linkId, now)
                     IN  /\ links' = r.links
                         /\ lastRes' = r.res
      /\ UNCHANGED <<users, sessions, uploads, now, inflight, uploading, drawn>>

GenerateLink(token, name, message, audioFile) ==
  LET a == auth(sessions, token)
      errors == generateLinkErrors(name, message, audioFile)
      fresh == nanoid(LinkIds, LinkIdLen, LinkKeys(links))
  IN  /\ lastReq' = [op |-> "generate-link", token |-> token, name |-> name,
                     message |-> message, audioFile |-> audioFile]
      /\ IF ~a.ok
           THEN /\ lastRes' = Unauthorized
                /\ links' = links
         ELSE IF errors # <<>>
           THEN /\ lastRes' = ValidationFailed(errors)
                /\ links' = links
           ELSE /\ Len(links) < MaxLinks
                /\ \E linkId \in fresh :
                     LET r == generateLinkHandler(links, a.user, name, message, audioFile, linkId, now)
                     IN  /\ links' = r.links
                         /\ lastRes' = r.res
      /\ UNCHANGED <<users, sessions, uploads, now, inflight, uploading, drawn>>

\* ----------------------------------------------------------- /api/invites
\* variant: oldest first
compare_Ascending(a, b) == a.createdAt - b.createdAt

\* (a, b) => b.createdAt - a.createdAt
compare(a, b) == b.createdAt - a.createdAt

\* Array.prototype.sort is stable: x goes behind every y with compare(y, x) <= 0
insert(sorted, x) ==
  LET k == Cardinality({i \in 1..Len(sorted) : compare(sorted[i], x) <= 0})
  IN  SubSeq(sorted, 1, k) \o <<x>> \o SubSeq(sorted, k + 1, Len(sorted))

RECURSIVE sort(_)
sort(a) == IF a = <<>> THEN <<>> ELSE insert(sort(SubSeq(a, 1, Len(a) - 1)), a[Len(a)])

\* .filter(([id, data]) => data.ownerId === req.user.userId)
filterOwner(l, userId) == SelectSeq(l, LAMBDA d : d.ownerId = userId)

invitesHandler(l, user) == Res(200, [array |-> sort(filterOwner(l, user.userId))])

Invites(token) ==
  LET a == auth(sessions, token)
  IN  /\ lastReq' = [op |-> "invites", token |-> token]
      /\ lastRes' = IF a.ok THEN invitesHandler(links, a.user) ELSE Unauthorized
      /\ UNCHANGED <<users, sessions, links, uploads, now, inflight, uploading, drawn>>

\* ---------------------------------------------------------- /api/get-link
getLinkErrors(id) ==
  Violations(<< [path |-> "id", bad |-> Len(id) # LinkIdLen] >>)

\* variant: the whole entry is returned
getLinkHandler_Full(l, id) ==
  IF id \notin LinkKeys(l)
    THEN LostHeart
    ELSE LET linkData == l[LinkIndex(l, id)]
         IN  Res(200, [name |-> linkData.name,
                       message |-> linkData.message,
                       audioUrl |-> linkData.audioPath,
                       status |-> linkData.status,
                       ownerId |-> linkData.ownerId,
                       createdAt |-> linkData.createdAt,
                       respondedAt |-> linkData.respondedAt])

getLinkHandler(l, id) ==
  IF id \notin LinkKeys(l)
    THEN LostHeart
    ELSE LET linkData == l[LinkIndex(l, id)]
         IN  Res(200, [name |-> linkData.name,
                       message |-> linkData.message,
                       audioUrl |-> linkData.audioPath,
                       status |-> linkData.status])

getLink(l, id) ==
  IF getLinkErrors(id) # <<>> THEN ValidationFailed(getLinkErrors(id)) ELSE getLinkHandler(l, id)

GetLink(id) ==
  /\ lastReq' = [op |-> "get-link", id |-> id]
  /\ lastRes' = getLink(links, xssBody(id))
  /\ UNCHANGED <<users, sessions, links, uploads, now, inflight, uploading, drawn>>

\* ----------------------------------------------------------- /api/respond
respondErrors(linkId, response) ==
  Violations(<< [path |-> "linkId", bad |-> Len(linkId) # LinkIdLen],
                [path |-> "response", bad |-> response \notin {"yes", "no"}] >>)

\* response === 'yes' ? 'accepted' : 'rejected'
statusOf(response) == IF response = "yes" THEN "accepted" ELSE "rejected"

\* variant: a resolved invite refuses further responses
respondHandler_Guarded(l, linkId, response, date) ==
  IF linkId \notin LinkKeys(l)
    THEN [links |-> l, res |-> LostHeart]
  ELSE IF l[LinkIndex(l, linkId)].status # "pending"
    THEN [links |-> l, res |-> Res(409, [error |-> "Already answered"])]
    ELSE [links |-> [l EXCEPT ![LinkIndex(l, linkId)].status = statusOf(response),
                              ![LinkIndex(l, linkId)].respondedAt = <<date>>],
          res |-> Res(200, [success |-> TRUE])]

\* variant: a response to an unknown id is recorded as a new entry
respondHandler_Upsert(l, linkId, response, date) ==
  IF linkId \notin LinkKeys(l)
    THEN [links |-> Append(l, [id |-> linkId, ownerId |-> "", name |-> <<>>, message |-> <<>>,
                               audioPath |-> "", status |-> statusOf(response),
                               createdAt |-> date, respondedAt |-> <<date>>]),
          res |-> Res(200, [success |-> TRUE])]
    ELSE [links |-> [l EXCEPT ![LinkIndex(l, linkId)].status = statusOf(response),
                              ![LinkIndex(l, linkId)].respondedAt = <<date>>],
          res |-> Res(200, [success |-> TRUE])]

\* variant: the response is written to every invite
respondHandler_All(l, linkId, response, date) ==
  IF linkId \notin LinkKeys(l)
    THEN [links |-> l, res |-> LostHeart]
    ELSE [links |-> [i \in 1..Len(l) |-> [l[i] EXCEPT !.status = statusOf(response),
                                                      !.respondedAt = <<date>>]],
          res |-> Res(200, [success |-> TRUE])]

\* variant: a response also renews the creation time
respondHandler_Restamp(l, linkId, response, date) ==
  IF linkId \notin LinkKeys(l)
    THEN [links |-> l, res |-> LostHeart]
    ELSE [links |-> [l EXCEPT ![LinkIndex(l, linkId)].status = statusOf(response),
                              ![LinkIndex(l, linkId)].respondedAt = <<date>>,
                              ![LinkIndex(l, linkId)].createdAt = date],
          res |-> Res(200, [success |-> TRUE])]

\* variant: a response sets the status and no time
respondHandler_NoStamp(l, linkId, response, date) ==
  IF linkId \notin LinkKeys(l)
    THEN [links |-> l, res |-> LostHeart]
    ELSE [links |-> [l EXCEPT ![LinkIndex(l, linkId)].status = statusOf(response)],
          res |-> Res(200, [success |-> TRUE])]

respondHandler(l, linkId, response, date) ==
  IF linkId \notin LinkKeys(l)
    THEN [links |-> l, res |-> LostHeart]
    ELSE [links |-> [l EXCEPT ![LinkIndex(l, linkId)].status = statusOf(response),
                              ![LinkIndex(l, linkId)].respondedAt = <<date>>],
          res |-> Res(200, [success |-> TRUE])]

Respond(linkId, response) ==
  LET body == [linkId |-> xssBody(linkId), response |-> xssBody(response)]
      errors == respondErrors(body.linkId, body.response)
      r == respondHandler(links, body.linkId, body.response, now)
  IN  /\ lastReq' = [op |-> "respond", linkId |-> linkId, response |-> response]
      /\ IF errors # <<>>
           THEN /\ lastRes' = ValidationFailed(errors)
                /\ links' = links
           ELSE /\ links' = r.links
                /\ lastRes' = r.res
      /\ UNCHANGED <<users, sessions, uploads, now, inflight, uploading, drawn>>

\* ---------------------------------------------------------- specifications
\* Every specification runs all the routes; they differ in which inputs vary.

\* Accounts and sessions: every email and password; one invite body, and no
\* response reaches an invite.
NextAccounts ==
  \/ \E email \in RawEmails, password \in Passwords : Register(email, password)
  \/ \E email \in RawEmails, password \in LoginPasswords : Login(email, password)
  \/ UploadAuth(1, Absent(""), NoFile)
  \/ \E token \in IssuedTokens :
       GenerateLink(token, PlainBody.name, PlainBody.message, PlainBody.audioFile)
  \/ \E token \in IssuedTokens : Invites(token)
  \/ \E id \in IssuedIds : GetLink(id)
  \/ Respond(BogusLink, "yes")

SpecAccounts == Init /\ [][NextAccounts]_vars

\* The auth gate: one account; every token and invite body; uploads without
\* a file; no response reaches an invite.
NextAuth ==
  \/ Register("a@x.com", "secret1")
  \/ Login("a@x.com", "secret1")
  \/ \E token \in TokenInputs : UploadAuth(1, token, NoFile)
  \/ UploadMulter(1)
  \/ UploadHandle(1)
  \/ \E token \in TokenInputs, b \in Bodies : GenerateLink(token, b.name, b.message, b.audioFile)
  \/ \E token \in TokenInputs : Invites(token)
  \/ \E id \in IdInputs : GetLink(id)
  \/ Respond(BogusLink, "yes")

SpecAuth == Init /\ [][NextAuth]_vars

\* Invites: one account; every invite body, link id and response.
NextInvites ==
  \/ Register("a@x.com", "secret1")
  \/ Login("a@x.com", "secret1")
  \/ UploadAuth(1, Absent(""), NoFile)
  \/ \E token \in IssuedTokens, b \in Bodies : GenerateLink(token, b.name, b.message, b.audioFile)
  \/ \E token \in IssuedTokens : Invites(token)
  \/ \E id \in IdInputs : GetLink(id)
  \/ \E linkId \in IdInputs, response \in Responses : Respond(linkId, response)

SpecInvites == Init /\ [][NextInvites]_vars

\* Owners: two accounts; one invite body; responses yes and no.
NextOwners ==
  \/ \E email \in {"a@x.com", "b@x.com"} : Register(email, "secret1")
  \/ \E email \in {"a@x.com", "b@x.com"} : Login(email, "secret1")
  \/ UploadAuth(1, Absent(""), NoFile)
  \/ \E token \in IssuedTokens :
       GenerateLink(token, PlainBody.name, PlainBody.message, PlainBody.audioFile)
  \/ \E token \in IssuedTokens : Invites(token)
  \/ \E id \in IssuedIds : GetLink(id)
  \/ \E linkId \in IssuedIds, response \in {"yes", "no"} : Respond(linkId, response)

SpecOwners == Init /\ [][NextOwners]_vars

\* Owners and time: two accounts; one invite body; the clock advances; no
\* response reaches an invite.
NextTimed ==
  \/ Tick
  \/ \E email \in {"a@x.com", "b@x.com"} : Register(email, "secret1")
  \/ \E email \in {"a@x.com", "b@x.com"} : Login(email, "secret1")
  \/ UploadAuth(1, Absent(""), NoFile)
  \/ \E token \in IssuedTokens :
       GenerateLink(token, PlainBody.name, PlainBody.message, PlainBody.audioFile)
  \/ \E token \in IssuedTokens : Invites(token)
  \/ \E id \in IssuedIds : GetLink(id)
  \/ Respond(BogusLink, "yes")

SpecTimed == Init /\ [][NextTimed]_vars

\* Validation: one account; inputs that break each route's constraints, with
\* and without a session.
NextValidation ==
  \/ \E email \in {"a@x.com", "not-an-email"}, password \in {"secret1", "short", "ab<"} :
       Register(email, password)
  \/ \E email \in {"a@x.com", "not-an-email"}, password \in {"secret1", ""} :
       Login(email, password)
  \/ UploadAuth(1, Absent(""), NoFile)
  \/ \E token \in TokenInputs, b \in Bodies : GenerateLink(token, b.name, b.message, b.audioFile)
  \/ \E token \in IssuedTokens : Invites(token)
  \/ \E id \in IdInputs : GetLink(id)
  \/ \E linkId \in IdInputs, response \in Responses : Respond(linkId, response)

SpecValidation == Init /\ [][NextValidation]_vars

\* Responses and time: one account; one invite body; the clock advances;
\* responses yes and no reach the invites.
NextRespond ==
  \/ Tick
  \/ Register("a@x.com", "secret1")
  \/ Login("a@x.com", "secret1")
  \/ UploadAuth(1, Absent(""), NoFile)
  \/ \E token \in IssuedTokens :
       GenerateLink(token, Some(<<"S">>), Some(<<"S">>), Some("fileid0001.mp3"))
  \/ \E token \in IssuedTokens : Invites(token)
  \/ \E id \in IssuedIds : GetLink(id)
  \/ \E linkId \in IssuedIds, response \in {"yes", "no"} : Respond(linkId, response)

SpecRespond == Init /\ [][NextRespond]_vars

\* Uploads: one account; a connection that uploads with every token and
\* file, and a second one that uploads an audio file at the same time.
NextUpload ==
  \/ Register("a@x.com", "secret1")
  \/ Login("a@x.com", "secret1")
  \/ \E token \in TokenInputs, file \in Files : UploadAuth(1, token, file)
  \/ UploadAuth(2, Some(SessionIds[1]), AudioFile)
  \/ \E c \in {1, 2} : UploadMulter(c)
  \/ \E c \in {1, 2} : UploadWritten(c)
  \/ \E c \in {1, 2} : UploadAbort(c)
  \/ \E c \in {1, 2} : UploadError(c)
  \/ \E c \in {1, 2} : UploadHandle(c)

SpecUpload == Init /\ [][NextUpload]_vars

\* Concurrent registers: every connection sends one register request; their
\* middleware steps interleave in every order.
NextConcurrent ==
  \/ \E c \in Clients, email \in RawEmails, password \in Passwords :
       RegisterReceive(c, email, password)
  \/ \E c \in Clients : RegisterValidate(c)
  \/ \E c \in Clients : RegisterHandle(c)

SpecConcurrent == Init /\ [][NextConcurrent]_vars

\* ------------------------------------------------------------------ claims
\* A step that answers a request: the clock stands still and no request goes
\* on to its next middleware (a connection's upload changes only by ending).
Answers ==
  /\ now' = now
  /\ inflight' = inflight
  /\ \/ uploading' = uploading
     \/ \E c \in Clients : uploading'[c] # uploading[c] /\ uploading'[c] = NoUpload

\* A step that answers a request of the route op: lastReq' is that request.
Handles(op) == Answers /\ lastReq'.op = op

Success == Res(200, [success |-> TRUE])

\* C1: once a respond has moved an invite from pending to accepted or
\* rejected, no later operation changes its status again.
C1_StatusSettlesOnce ==
  [][\A i \in 1..Len(links) :
       links[i].status # "pending" => links'[i].status = links[i].status]_vars

\* C2: respond on an existing invite answers success and sets the status to
\* accepted for yes and to rejected for no, whatever the status was before
\* (pending, accepted or rejected).
C2_RespondSetsStatus ==
  [][\A i \in 1..Len(links) :
       ( /\ Handles("respond")
         /\ lastReq'.linkId = links[i].id
         /\ lastReq'.response \in {"yes", "no"} )
       => /\ lastRes' = Success
          /\ lastReq'.response = "yes" => links'[i].status = "accepted"
          /\ lastReq'.response = "no" => links'[i].status = "rejected"]_vars

\* a resolved invite whose last response was the opposite answer at a later time
C2_Witness ==
  /\ lastReq.op = "respond"
  /\ lastReq.response = "no"
  /\ lastRes = Success
  /\ \E i \in 1..Len(links) :
       /\ links[i].id = lastReq.linkId
       /\ links[i].status = "rejected"
       /\ Len(links) = 2

\* C3: a valid register for an email that has an account fails with 400
\* 'User already exists' and changes no account, whatever its password; a
\* valid register for an email without account succeeds and creates it; and
\* accounts are never removed.  So of the valid registers for one email
\* exactly the first succeeds.
C3_RegisterOnce ==
  [][/\ DOMAIN users \subseteq DOMAIN users'
     /\ ( /\ Handles("register")
          /\ isEmail(lastReq'.email)
          /\ Len(lastReq'.password) >= 6 )
        => IF normalizeEmail(lastReq'.email) \in DOMAIN users
             THEN /\ lastRes' = Res(400, [error |-> "User already exists"])
                  /\ users' = users
             ELSE /\ lastRes'.status = 200
                  /\ normalizeEmail(lastReq'.email) \in DOMAIN users']_vars

\* a register refused for an account that holds another password
C3_Witness ==
  /\ lastReq.op = "register"
  /\ lastRes = Res(400, [error |-> "User already exists"])
  /\ users[normalizeEmail(lastReq.email)].password # lastReq.password

\* C4: a valid login that names no account, or an account with another
\* password, gets 401 'Invalid credentials' in both cases and creates no
\* session.
C4_LoginFailureUniform ==
  [][( /\ Handles("login")
       /\ isEmail(lastReq'.email)
       /\ lastReq'.password # ""
       /\ \/ normalizeEmail(lastReq'.email) \notin DOMAIN users
          \/ users[normalizeEmail(lastReq'.email)].password # lastReq'.password )
     => /\ lastRes' = Res(401, [error |-> "Invalid credentials"])
        /\ sessions' = sessions]_vars

\* a login with a wrong password for a registered email
C4_Witness ==
  /\ lastReq.op = "login"
  /\ normalizeEmail(lastReq.email) \in DOMAIN users
  /\ lastReq.password # ""
  /\ users[normalizeEmail(lastReq.email)].password # lastReq.password
  /\ lastRes = Res(401, [error |-> "Invalid credentials"])
  /\ \E e \in {"a@x.com", "b@x.com"} : e \notin DOMAIN users

\* C5: the token of a successful login resolves to the id and email of the
\* account that logged in, and every token keeps resolving to the same
\* identity after every step.
C5_SessionsStable ==
  [][/\ \A t \in DOMAIN sessions :
          auth(sessions', Some(t)) = [ok |-> TRUE, user |-> sessions[t]]
     /\ (Handles("login") /\ lastRes'.status = 200)
        => auth(sessions', Some(lastRes'.body.sessionId)) =
             [ok |-> TRUE,
              user |-> [userId |-> users[normalizeEmail(lastReq'.email)].id,
                        email |-> normalizeEmail(lastReq'.email)]]]_vars

\* one account holds two tokens, and operations on invites came after the logins
C5_Witness ==
  /\ \E t1, t2 \in DOMAIN sessions : t1 # t2 /\ sessions[t1] = sessions[t2]
  /\ links # <<>>

\* C6: upload-audio, generate-link and invites without Authorization header
\* or with a token that is in no session get 401 'Unauthorized', the same
\* response in both cases, and no registry and no upload changes.
C6_AuthGate ==
  [][( /\ Answers
       /\ lastReq'.op \in {"upload-audio", "generate-link", "invites"}
       /\ \/ ~lastReq'.token.some
          \/ lastReq'.token.val \notin DOMAIN sessions )
     => /\ lastRes' = Res(401, [error |-> "Unauthorized"])
        /\ UNCHANGED <<users, sessions, links, uploads>>]_vars

\* an unknown token on generate-link with an invalid body, while a session exists
C6_Witness ==
  /\ lastReq.op = "generate-link"
  /\ lastReq.token.some
  /\ lastReq.token.val \notin DOMAIN sessions
  /\ ~lastReq.name.some
  /\ DOMAIN sessions # {}
  /\ lastRes = Res(401, [error |-> "Unauthorized"])

\* what get-link answers for a name or message: '<' becomes '&lt;' (xss-clean),
\* white space at both ends is dropped, then & becomes '&amp;'
C7_Sanitized(text) ==
  CASE text = <<"S">>      -> <<"S">>
    [] text = <<" ", "<">> -> <<"&", "a", "m", "p", ";", "l", "t", ";">>
    [] text = <<"&", " ">> -> <<"&", "a", "m", "p", ";">>

\* C7 as stated: a successful generate-link returns a linkId of 10
\* characters and get-link with it returns the supplied name, message and
\* audio file unchanged.
C7_ReturnsSupplied ==
  (lastReq.op = "generate-link" /\ lastRes.status = 200)
  => /\ Len(lastRes.body.linkId) = 10
     /\ getLink(links, lastRes.body.linkId).body.name = lastReq.name.val
     /\ getLink(links, lastRes.body.linkId).body.message = lastReq.message.val
     /\ getLink(links, lastRes.body.linkId).body.audioUrl = lastReq.audioFile.val

\* the audioUrl get-link answers for an audioFile: '' for none or an empty
\* one, else '/uploads/' and the file name with '<' as '&lt;' (xss-clean)
C7_AudioUrl(audioFile) ==
  CASE ~audioFile.some             -> ""
    [] audioFile.val = ""          -> ""
    [] audioFile.val = "a<b.mp3"   -> "/uploads/a&lt;b.mp3"

\* C7, amended: a successful generate-link returns a linkId of 10
\* characters; get-link with it returns the name and the message as
\* sanitised ('' for no message) and audioUrl '/uploads/' + audioFile with
\* every '<' written '&lt;' ('' for no or an empty audioFile); and no later
\* step changes these three fields.
C7_ReturnsSanitized ==
  [][/\ \A i \in 1..Len(links) :
          links' = links \/
          LET before == getLink(links, links[i].id).body
              after  == getLink(links', links[i].id)
          IN  /\ after.status = 200
              /\ after.body.name = before.name
              /\ after.body.message = before.message
              /\ after.body.audioUrl = before.audioUrl
     /\ (Handles("generate-link") /\ lastRes'.status = 200)
        => /\ Len(lastRes'.body.linkId) = 10
           /\ getLink(links', lastRes'.body.linkId) =
                Res(200, [name |-> C7_Sanitized(lastReq'.name.val),
                          message |-> IF lastReq'.message.some
                                        THEN C7_Sanitized(lastReq'.message.val) ELSE <<>>,
                          audioUrl |-> C7_AudioUrl(lastReq'.audioFile),
                          status |-> "pending"])]_vars

\* an invite made from a name, a message and a file name that sanitising
\* changes, read back after a respond and the creation of another invite
C7_Witness ==
  /\ lastReq.op = "get-link"
  /\ lastRes.status = 200
  /\ lastRes.body.name = <<"&", "a", "m", "p", ";", "l", "t", ";">>
  /\ lastRes.body.audioUrl = "/uploads/a&lt;b.mp3"
  /\ lastRes.body.status # "pending"
  /\ Len(links) = 2
  /\ links[1].id = lastReq.id

\* C8: the invites listing returns every invite whose ownerId is the
\* caller's userId, each once, no other invite, with createdAt descending.
C8_ListByOwner ==
  (lastReq.op = "invites" /\ lastRes.status = 200)
  => LET arr == lastRes.body.array
         uid == sessions[lastReq.token.val].userId
     IN  /\ {arr[i] : i \in 1..Len(arr)} = {links[i] : i \in {j \in 1..Len(links) : links[j].ownerId = uid}}
         /\ \A i, j \in 1..Len(arr) : i < j => arr[i].id # arr[j].id
         /\ \A i, j \in 1..Len(arr) : i < j => arr[i].createdAt >= arr[j].createdAt

\* a listing of two invites created at different times
C8_Witness ==
  /\ lastReq.op = "invites"
  /\ lastRes.status = 200
  /\ Len(lastRes.body.array) = 2
  /\ lastRes.body.array[1].createdAt > lastRes.body.array[2].createdAt

\* C9: get-link, and respond with a valid response, for a 10-character id
\* that is not in the invite registry answer 404 and change no registry.
C9_UnknownIdNotFound ==
  [][( /\ Answers
       /\ \/ lastReq'.op = "get-link" /\ Len(lastReq'.id) = 10
                                      /\ lastReq'.id \notin LinkKeys(links)
          \/ lastReq'.op = "respond" /\ Len(lastReq'.linkId) = 10
                                     /\ lastReq'.response \in {"yes", "no"}
                                     /\ lastReq'.linkId \notin LinkKeys(links) )
     => /\ lastRes'.status = 404
        /\ UNCHANGED <<links, users, sessions>>]_vars

\* a respond on an unknown id while an invite exists
C9_Witness ==
  /\ lastReq.op = "respond"
  /\ lastReq.linkId \notin LinkKeys(links)
  /\ lastRes.status = 404
  /\ links # <<>>

\* C10: get-link answers pending for a new invite; what it answers for an
\* invite changes only by a successful respond on that invite's id; and after
\* respond yes it answers accepted.
C10_PendingUntilRespond ==
  [][/\ (Handles("generate-link") /\ lastRes'.status = 200)
        => getLink(links', lastRes'.body.linkId).body.status = "pending"
     /\ \A i \in 1..Len(links) :
          \/ links' = links
          \/ getLink(links', links[i].id) = getLink(links, links[i].id)
          \/ Handles("respond") /\ lastReq'.linkId = links[i].id /\ lastRes' = Success
     /\ \A i \in 1..Len(links) :
          (Handles("respond") /\ lastReq'.linkId = links[i].id /\ lastReq'.response = "yes")
          => getLink(links', links[i].id).body.status = "accepted"]_vars

\* get-link answers accepted for one invite while the other, of another
\* owner, is still pending
C10_Witness ==
  /\ lastReq.op = "get-link"
  /\ lastRes.status = 200
  /\ lastRes.body.status = "accepted"
  /\ \E i \in 1..Len(links) :
       /\ links[i].id # lastReq.id
       /\ links[i].status = "pending"
       /\ \E j \in 1..Len(links) : links[j].id = lastReq.id /\ links[j].ownerId # links[i].ownerId

\* C11: an upload rejected because the file is not audio, or is larger than
\* 10 MiB, is answered with status 400 and a JSON body that has an error field.
C11_UploadRejectedAs400 ==
  [][( /\ Handles("upload-audio")
       /\ lastReq'.token.some
       /\ lastReq'.token.val \in DOMAIN sessions
       /\ lastReq'.file.some
       /\ \/ lastReq'.file.val.mimetype.type # "audio"
          \/ lastReq'.file.val.size > 10 * 1024 * 1024 )
     => /\ lastRes'.status = 400
        /\ "error" \in DOMAIN lastRes'.body]_vars

\* C16 as stated: on generate-link the input validation runs before the auth
\* check, so a request with invalid input and no valid session token is
\* answered 400, not 401.
C16_ValidationBeforeAuth ==
  [][( /\ Handles("generate-link")
       /\ ~lastReq'.name.some \/ trim(lastReq'.name.val) = <<>>
       /\ ~lastReq'.token.some \/ lastReq'.token.val \notin DOMAIN sessions )
     => lastRes'.status = 400]_vars

\* the fields of a request that break the constraints of its route: email
\* format and password length on register, email format and a password on
\* login, a non-blank name on generate-link, a 10-character id on get-link and
\* respond, and a response of yes or no
C12_Violated(req) ==
  CASE req.op = "register" ->
         (IF req.email \in {"a@x.com", "A@x.com", "b@x.com"} THEN {} ELSE {"email"})
           \cup (IF Len(req.password) >= 6 THEN {} ELSE {"password"})
    [] req.op = "login" ->
         (IF req.email \in {"a@x.com", "A@x.com", "b@x.com"} THEN {} ELSE {"email"})
           \cup (IF req.password # "" THEN {} ELSE {"password"})
    [] req.op = "generate-link" ->
         IF req.name.some /\ trim(req.name.val) # <<>> THEN {} ELSE {"name"}
    [] req.op = "get-link" ->
         IF Len(req.id) = 10 THEN {} ELSE {"id"}
    [] req.op = "respond" ->
         (IF Len(req.linkId) = 10 THEN {} ELSE {"linkId"})
           \cup (IF req.response \in {"yes", "no"} THEN {} ELSE {"response"})
    [] OTHER -> {}

\* the answer 400 that lists exactly the fields in paths
C12_Lists(res, paths) ==
  /\ res.status = 400
  /\ res.body.error = "Validation failed"
  /\ {res.body.details[i].path : i \in 1..Len(res.body.details)} = paths

\* C12 as stated: a request that violates the input constraints of register,
\* login, generate-link, get-link or respond is rejected with 400 and the
\* list of the violated constraints, and changes no account, session or
\* invite.
C12_InvalidRejected400 ==
  [][(Answers /\ C12_Violated(lastReq') # {})
     => /\ C12_Lists(lastRes', C12_Violated(lastReq'))
        /\ UNCHANGED <<users, sessions, links>>]_vars

\* C14: no operation modifies or removes an account: once created it keeps
\* its password and its id; and there is at most one account per email: the
\* registry is keyed by the normalised email, so the two spellings of one
\* address never give two accounts.
C14_AccountsImmutable ==
  [][/\ \A e \in DOMAIN users : e \in DOMAIN users' /\ users'[e] = users[e]
     /\ \A e \in DOMAIN users' : e \in {"a@x.com", "b@x.com"}]_vars

\* an account with sessions and an invite, after a register for its email in
\* another spelling and with another password was refused
C14_Witness ==
  /\ lastReq.op = "register"
  /\ lastReq.email = "A@x.com"
  /\ lastReq.password = "Secret1"
  /\ "a@x.com" \in DOMAIN users
  /\ users["a@x.com"].password = "secret1"
  /\ Cardinality(DOMAIN sessions) = 2
  /\ links # <<>>
  /\ lastRes.status = 400

\* C18: the registries are referentially consistent: every session carries
\* the email key and the id of an existing account, and every invite's
\* ownerId is the id of an existing account.
C18_ReferencesResolve ==
  /\ \A t \in DOMAIN sessions :
       /\ sessions[t].email \in DOMAIN users
       /\ sessions[t].userId = users[sessions[t].email].id
  /\ \A i \in 1..Len(links) :
       \E e \in DOMAIN users : links[i].ownerId = users[e].id

\* two accounts, each with a session, and an invite of the second account
C18_Witness ==
  /\ Cardinality(DOMAIN users) = 2
  /\ Cardinality({sessions[t].userId : t \in DOMAIN sessions}) = 2
  /\ \E i \in 1..Len(links) : links[i].ownerId = users["b@x.com"].id
  /\ \E i \in 1..Len(links) : links[i].ownerId = users["a@x.com"].id

\* the registry l with the owner and the two times of its i-th invite replaced
C13_Vary(l, i, owner, created, responded) ==
  [l EXCEPT ![i].ownerId = owner, ![i].createdAt = created, ![i].respondedAt = responded]

\* C13: what get-link answers depends only on the invite's name, message,
\* audio path and status: the answer given is the answer from any registry
\* that differs in the ownerId, createdAt or respondedAt of an invite, and
\* its body holds the four fields only.
C13_GetLinkIndependent ==
  lastReq.op = "get-link" =>
    /\ lastRes.status = 200 => DOMAIN lastRes.body = {"name", "message", "audioUrl", "status"}
    /\ \A i \in 1..Len(links) :
         \A owner \in {"", "user00000000000000001", "user00000000000000002"},
            created \in 0..2,
            responded \in {<<>>, <<0>>, <<1>>, <<2>>} :
              getLink(C13_Vary(links, i, owner, created, responded), lastReq.id) = lastRes

\* get-link answered for an invite that was answered after the clock advanced
C13_Witness ==
  /\ lastReq.op = "get-link"
  /\ lastRes.status = 200
  /\ lastRes.body.status = "accepted"
  /\ lastRes.body.audioUrl # ""
  /\ \E i \in 1..Len(links) :
       /\ links[i].id = lastReq.id
       /\ links[i].respondedAt = <<1>>
       /\ links[i].createdAt = 0

\* C17: a successful respond on an invite changes the status and the
\* respondedAt of that invite only: its ownerId, name, message, audioPath and
\* createdAt, every other invite, the set of invite ids, the accounts and the
\* sessions stay as they were.
C17_RespondFrame ==
  [][(Handles("respond") /\ lastRes' = Success)
     => /\ UNCHANGED <<users, sessions>>
        /\ Len(links') = Len(links)
        /\ \A i \in 1..Len(links) :
             IF links[i].id = lastReq'.linkId
               THEN links'[i] = [links[i] EXCEPT !.status = links'[i].status,
                                                 !.respondedAt = links'[i].respondedAt]
               ELSE links'[i] = links[i]]_vars

\* a response at time 1 to the first of two invites created at time 0, the
\* second one answered before
C17_Witness ==
  /\ lastReq.op = "respond"
  /\ lastRes = Success
  /\ Len(links) = 2
  /\ links[1].id = lastReq.linkId
  /\ links[1].createdAt = 0
  /\ links[1].respondedAt = <<1>>
  /\ links[2].status = "rejected"
  /\ links[2].respondedAt = <<0>>

\* C19: an invite has a respondedAt time exactly when its status is accepted
\* or rejected, a pending invite has none, and no operation returns an invite
\* to pending.
C19_RespondedIffResolved ==
  [][\A i \in 1..Len(links') :
       /\ links'[i].status \in {"pending", "accepted", "rejected"}
       /\ links'[i].respondedAt # <<>> <=> links'[i].status \in {"accepted", "rejected"}
       /\ links'[i].status = "pending" => links'[i].respondedAt = <<>>
       /\ (i <= Len(links) /\ links[i].status # "pending") => links'[i].status # "pending"]_vars

\* one invite answered twice and one still pending
C19_Witness ==
  /\ Len(links) = 2
  /\ links[1].status = "pending"
  /\ links[1].respondedAt = <<>>
  /\ links[2].status = "accepted"
  /\ links[2].respondedAt = <<1>>
  /\ links[2].createdAt = 0
  /\ lastReq.op = "respond"
  /\ lastReq.linkId = links[2].id

\* the connections whose valid register request for the email e was answered
C15_Answered(e) ==
  {c \in Clients : /\ inflight[c].stage = "done"
                   /\ inflight[c].res.status # 400 \/ inflight[c].res.body.error # "Validation failed"
                   /\ inflight[c].email = e}

\* C15: however the steps of concurrent register requests for one email
\* interleave, exactly one of them succeeds, every other one gets 400 'User
\* already exists', and the stored account holds the password of the
\* successful request.
C15_OneRegisterWins ==
  \A e \in {"a@x.com", "b@x.com"} :
    C15_Answered(e) # {} =>
      /\ e \in DOMAIN users
      /\ \E w \in C15_Answered(e) :
           /\ inflight[w].res.status = 200
           /\ users[e].password = inflight[w].password
           /\ \A c \in C15_Answered(e) \ {w} :
                inflight[c].res = Res(400, [error |-> "User already exists"])

\* two requests for one address with two passwords, both
\* answered: the second connection won
C15_Witness ==
  /\ inflight[1].stage = "done"
  /\ inflight[2].stage = "done"
  /\ inflight[1].email = "a@x.com"
  /\ inflight[1].password = "Secret1"
  /\ inflight[2].email = "a@x.com"
  /\ inflight[2].password = "secret1"
  /\ inflight[1].res = Res(400, [error |-> "User already exists"])
  /\ inflight[2].res.status = 200
  /\ users["a@x.com"].password = "secret1"

====
